---------------------------- MODULE Spec2Model ----------------------------
(***************************************************************************)
(* A model of bot.py: a Telegram bot that scores a submitted text against  *)
(* the stored submissions (difflib.SequenceMatcher) and against a remote   *)
(* scan service (Copyleaks), replies with a verdict and stores the         *)
(* submission in an SQLite table.                                          *)
(*                                                                         *)
(* Texts are sequences of one-character strings.  A float ratio is the     *)
(* exact fraction [num, den] it is computed from; fractions are compared   *)
(* by cross-multiplication.  Percentages are whole percents.               *)
(***************************************************************************)
EXTENDS Integers, Sequences, FiniteSets, TLC

(***************************************************************************)
(* Bounds of the model.                                                    *)
(***************************************************************************)
\* updates the webhook accepts in one behaviour of Spec
MaxUpdates == 2
\* updates the webhook accepts in one behaviour of SpecTexts
MaxTextUpdates == 3
\* updates the webhook accepts in one behaviour of SpecRace
MaxRaceUpdates == 2
\* last reading of the wall clock
MaxClock == 2

(***************************************************************************)
(* Program constants.                                                      *)
(***************************************************************************)
\* LOCAL_SIMILARITY_THRESHOLD = 0.7, as the fraction 7/10
LOCAL_SIMILARITY_THRESHOLD == [num |-> 7, den |-> 10]
\* INTERNET_SIMILARITY_THRESHOLD = 20.0, in percent
INTERNET_SIMILARITY_THRESHOLD == 20

\* Python's None where a text or a user name is expected
None == <<"None">>
\* Python's None where a record id is expected (ids start at 1)
NoId == 0

(***************************************************************************)
(* Strings.                                                                *)
(***************************************************************************)
Whitespace == {" ", "\n"}

RECURSIVE lstrip(_)
lstrip(s) ==
    IF s # <<>> /\ Head(s) \in Whitespace THEN lstrip(Tail(s)) ELSE s

RECURSIVE rstrip(_)
rstrip(s) ==
    IF s # <<>> /\ s[Len(s)] \in Whitespace
    THEN rstrip(SubSeq(s, 1, Len(s) - 1))
    ELSE s

\* str.strip()
strip(s) == rstrip(lstrip(s))

\* str.lower() on the characters file names are drawn from
lower(s) ==
    [i \in 1..Len(s) |->
        CASE s[i] = "D" -> "d"
          [] s[i] = "O" -> "o"
          [] s[i] = "C" -> "c"
          [] s[i] = "X" -> "x"
          [] s[i] = "A" -> "a"
          [] OTHER -> s[i]]

\* str.endswith(suffix)
endswith(s, suffix) ==
    /\ Len(s) >= Len(suffix)
    /\ SubSeq(s, Len(s) - Len(suffix) + 1, Len(s)) = suffix

Digits == <<"0", "1", "2", "3", "4", "5", "6", "7", "8", "9">>

\* str(n) of a non-negative integer
RECURSIVE str(_)
str(n) ==
    IF n < 10 THEN <<Digits[n + 1]>>
    ELSE str(n \div 10) \o <<Digits[(n % 10) + 1]>>

\* "\n".join(texts)
RECURSIVE join(_)
join(texts) ==
    IF texts = <<>> THEN <<>>
    ELSE IF Len(texts) = 1 THEN texts[1]
    ELSE texts[1] \o <<"\n">> \o join(Tail(texts))

(***************************************************************************)
(* difflib.SequenceMatcher(None, a, b).ratio(), for texts shorter than the *)
(* 200 characters at which autojunk starts.  Positions are Python's:       *)
(* 0-based, half-open ranges [alo, ahi) and [blo, bhi).                    *)
(***************************************************************************)
\* length of the common run of a[i:ahi] and b[j:bhi]
RECURSIVE RunLength(_, _, _, _, _, _)
RunLength(a, b, i, j, ahi, bhi) ==
    IF i < ahi /\ j < bhi /\ a[i + 1] = b[j + 1]
    THEN 1 + RunLength(a, b, i + 1, j + 1, ahi, bhi)
    ELSE 0

\* find_longest_match: the longest block, the earliest in a, then in b
find_longest_match(a, b, alo, ahi, blo, bhi) ==
    LET runs == {<<i, j, RunLength(a, b, i, j, ahi, bhi)>> :
                    i \in alo..(ahi - 1), j \in blo..(bhi - 1)}
        found == {r \in runs : r[3] > 0}
    IN  IF found = {} THEN <<alo, blo, 0>>
        ELSE CHOOSE r \in found :
                \A q \in found :
                    \/ r[3] > q[3]
                    \/ r[3] = q[3] /\ r[1] < q[1]
                    \/ r[3] = q[3] /\ r[1] = q[1] /\ r[2] <= q[2]

\* get_matching_blocks: the sum of the sizes of the blocks
RECURSIVE matches(_, _, _, _, _, _)
matches(a, b, alo, ahi, blo, bhi) ==
    LET m == find_longest_match(a, b, alo, ahi, blo, bhi)
        i == m[1]
        j == m[2]
        k == m[3]
    IN  IF k = 0 THEN 0
        ELSE k
             + (IF alo < i /\ blo < j THEN matches(a, b, alo, i, blo, j) ELSE 0)
             + (IF i + k < ahi /\ j + k < bhi
                THEN matches(a, b, i + k, ahi, j + k, bhi) ELSE 0)

\* ratio(): 2.0 * matches / (len(a) + len(b)), 1.0 when both are empty
ratio(a, b) ==
    IF Len(a) + Len(b) = 0 THEN [num |-> 1, den |-> 1]
    ELSE [num |-> 2 * matches(a, b, 0, Len(a), 0, Len(b)),
          den |-> Len(a) + Len(b)]

\* comparisons of two ratios
Greater(r, s) == r.num * s.den > s.num * r.den
GreaterEq(r, s) == r.num * s.den >= s.num * r.den
Same(r, s) == r.num * s.den = s.num * r.den

(***************************************************************************)
(* The local record store and the local scorer.                            *)
(***************************************************************************)
\* rec_username or str(rec_user_id)
display_user_mutant(rec) == rec.username
display_user(rec) ==
    IF rec.username # <<>> /\ rec.username # None
    THEN rec.username
    ELSE str(rec.user_id)

\* the test of line 93: the row replaces the best one seen so far
better_mutant(r, best_ratio) == GreaterEq(r, best_ratio)
better(r, best_ratio) == Greater(r, best_ratio)

\* the loop of calculate_max_similarity_locally from row k on
RECURSIVE scan_rows(_, _, _, _)
scan_rows(new_text, rows, k, best) ==
    IF k > Len(rows) THEN best
    ELSE LET rec == rows[k]
             r == ratio(new_text, rec.text)
         IN  scan_rows(new_text, rows, k + 1,
                 IF better(r, best.ratio)
                 THEN [ratio |-> r, id |-> rec.id, user |-> display_user(rec)]
                 ELSE best)

\* calculate_max_similarity_locally over the rows fetch_all_submissions returns
calculate_max_similarity_locally_mutant(new_text, rows) ==
    scan_rows(new_text, rows, 2,
        [ratio |-> [num |-> 0, den |-> 1], id |-> NoId, user |-> None])
calculate_max_similarity_locally(new_text, rows) ==
    scan_rows(new_text, rows, 1,
        [ratio |-> [num |-> 0, den |-> 1], id |-> NoId, user |-> None])

\* the row save_submission inserts; the store assigns the next id
new_row(rows, user, text, ts, internet_score) ==
    [id |-> Len(rows) + 1,
     user_id |-> user.id,
     username |-> IF user.username = None THEN <<>> ELSE user.username,
     text |-> text,
     ts |-> ts,
     internet_score |-> internet_score]

(***************************************************************************)
(* extract_text_from_docx.  A document is [ok, nodes]: ok is whether the   *)
(* archive opens, holds word/document.xml and that part parses; nodes are  *)
(* the texts of its <w:t> nodes in document order (<<>> for a node with    *)
(* no text).                                                               *)
(***************************************************************************)
RuntimeError == <<"RuntimeError">>

RECURSIVE node_texts(_)
node_texts(nodes) ==
    IF nodes = <<>> THEN <<>>
    ELSE IF Head(nodes) # <<>>
         THEN <<Head(nodes)>> \o node_texts(Tail(nodes))
         ELSE node_texts(Tail(nodes))

extract_text_from_docx(doc) ==
    IF ~doc.ok THEN RuntimeError ELSE join(node_texts(doc.nodes))

(***************************************************************************)
(* The decisions of the two handlers.                                      *)
(***************************************************************************)
\* if not raw_text  /  if not raw_text.strip()
is_blank_mutant(text) == FALSE
is_blank(text) == text = <<>>

\* if not doc.file_name.lower().endswith(".docx")
wrong_extension(file_name) ==
    ~endswith(lower(file_name), <<".", "d", "o", "c", "x">>)

\* if local_id and local_ratio >= LOCAL_SIMILARITY_THRESHOLD
local_warning(local) ==
    local.id # NoId /\ GreaterEq(local.ratio, LOCAL_SIMILARITY_THRESHOLD)

\* if internet_score >= INTERNET_SIMILARITY_THRESHOLD
not_original_mutant(internet_score) ==
    internet_score > INTERNET_SIMILARITY_THRESHOLD
not_original(internet_score) ==
    internet_score >= INTERNET_SIMILARITY_THRESHOLD

Reply(kind) == [kind |-> kind, user |-> None]

\* the reply after the local scoring (lines 269-276, 332-339)
local_reply(local) ==
    IF local_warning(local)
    THEN [kind |-> "local_warning", user |-> local.user]
    ELSE Reply("no_local")

\* the verdict reply (lines 287-295, 350-358)
verdict_reply(internet_score) ==
    IF not_original(internet_score)
    THEN Reply("not_original")
    ELSE Reply("original")

(***************************************************************************)
(* The responses of the scan service.                                      *)
(***************************************************************************)
\* the outcome of one status poll: what the loop of lines 188-201 does
poll_outcome_mutant(status_code, status) ==
    IF status_code # 200 THEN "raise"
    ELSE IF status = "completed" \/ status = "in-progress" THEN "return"
    ELSE IF status = "failed" THEN "raise"
    ELSE "sleep"
poll_outcome(status_code, status) ==
    IF status_code # 200 THEN "raise"
    ELSE IF status = "completed" THEN "return"
    ELSE IF status = "failed" THEN "raise"
    ELSE "sleep"

\* report.get("summary", {}).get("percentage", 0.0)
overall_score(report) ==
    IF report.has_summary /\ report.has_percentage
    THEN report.percentage
    ELSE 0

(***************************************************************************)
(* The state.                                                              *)
(***************************************************************************)
VARIABLES
    db,         \* the rows of table submissions, in id order
    clock,      \* the wall clock datetime.utcnow() reads
    files,      \* the temporary files that exist, by path
    paths,      \* the temporary paths handed out so far
    updates,    \* the updates the webhook has accepted
    scored,     \* the calls of check_internet_plagiarism that returned a score
    hs          \* the handler each request thread runs

vars == <<db, clock, files, paths, updates, scored, hs>>

\* the request threads of the web server
Handlers == {"t1", "t2"}

NoLocal == [ratio |-> [num |-> 0, den |-> 1], id |-> NoId, user |-> None]
NoUser == [id |-> 0, username |-> None]
NoUpdate ==
    [kind |-> "none", user |-> NoUser, text |-> None, file_name |-> None,
     doc |-> [ok |-> FALSE, nodes |-> <<>>]]

NoReport ==
    [status_code |-> 0, has_summary |-> FALSE, has_percentage |-> FALSE,
     percentage |-> 0]

\* a thread that handles no update; the last four fields are the answers the
\* service gave to the handler's requests
Idle ==
    [pc |-> "idle", update |-> NoUpdate, raw_text |-> None, local |-> NoLocal,
     nrows |-> 0, score |-> 0, ts |-> 0, replies |-> <<>>, calls |-> {},
     scan |-> "none", waited |-> FALSE, temp_path |-> 0, start_rows |-> 0,
     saved |-> 0, result |-> "none",
     token_status |-> 0, submit_answer |-> <<0, FALSE>>, polled |-> "none",
     report |-> NoReport]

Init ==
    /\ db = <<>>
    /\ clock = 0
    /\ files = {}
    /\ paths = 0
    /\ updates = 0
    /\ scored = 0
    /\ hs = [h \in Handlers |-> Idle]

Put(h, s) == hs' = [hs EXCEPT ![h] = s]

\* the handler returns (or an exception leaves it): the thread is free again
Finish(s, result) == [s EXCEPT !.pc = "idle", !.result = result]

Say(s, reply) == [s EXCEPT !.replies = Append(@, reply)]

(***************************************************************************)
(* webhook: the dispatcher hands the update to its handler, in the thread  *)
(* of the request.                                                         *)
(***************************************************************************)
webhook(h, update, limit) ==
    /\ hs[h].pc = "idle"
    /\ updates < limit
    /\ updates' = updates + 1
    /\ Put(h, [Idle EXCEPT !.pc = "handler", !.update = update,
                           !.start_rows = Len(db)])
    /\ UNCHANGED <<db, clock, files, paths, scored>>

\* lines 268-276 and 331-339: the local scoring and its reply
score_locally(s, raw_text) ==
    LET local == calculate_max_similarity_locally(raw_text, db)
    IN  Say([s EXCEPT !.pc = "token", !.raw_text = raw_text,
                      !.local = local, !.nrows = Len(db)],
            local_reply(local))

\* check_text up to the call of check_internet_plagiarism
check_text(h) ==
    LET s == hs[h]
        raw_text == strip(s.update.text)
    IN  /\ s.pc = "handler"
        /\ s.update.kind = "text"
        /\ IF is_blank(raw_text)
           THEN Put(h, Finish(Say([s EXCEPT !.raw_text = raw_text],
                                  Reply("empty_text")), "rejected"))
           ELSE Put(h, score_locally(s, raw_text))
        /\ UNCHANGED <<db, clock, files, paths, updates, scored>>

\* handle_document: the check of the file name
handle_document(h) ==
    LET s == hs[h]
    IN  /\ s.pc = "handler"
        /\ s.update.kind = "document"
        /\ IF wrong_extension(s.update.file_name)
           THEN Put(h, Finish(Say(s, Reply("only_docx")), "rejected"))
           ELSE Put(h, [s EXCEPT !.pc = "download"])
        /\ UNCHANGED <<db, clock, files, paths, updates, scored>>

\* handle_document, lines 309-313: get_file, NamedTemporaryFile(delete=False)
\* and download; get_file and download are network calls that may raise
download(h, outcome) ==
    LET s == hs[h]
        temp_path == paths + 1
    IN  /\ s.pc = "download"
        /\ CASE outcome = "get_file raises" ->
                  /\ Put(h, Finish(s, "raised"))
                  /\ UNCHANGED <<files, paths>>
             [] outcome = "download raises" ->
                  /\ Put(h, Finish([s EXCEPT !.temp_path = temp_path], "raised"))
                  /\ files' = files \cup {temp_path}
                  /\ paths' = temp_path
             [] outcome = "downloaded" ->
                  /\ Put(h, [s EXCEPT !.pc = "extract", !.temp_path = temp_path])
                  /\ files' = files \cup {temp_path}
                  /\ paths' = temp_path
        /\ UNCHANGED <<db, clock, updates, scored>>

\* handle_document, lines 316-339: extraction, os.remove, the blank check
\* and the local scoring
extract(h) ==
    LET s == hs[h]
        raw_text == extract_text_from_docx(s.update.doc)
    IN  /\ s.pc = "extract"
        /\ files' = files \ {s.temp_path}
        /\ IF raw_text = RuntimeError
           THEN Put(h, Finish(Say(s, Reply("extract_failed")), "rejected"))
           ELSE IF is_blank(strip(raw_text))
           THEN Put(h, Finish(Say([s EXCEPT !.raw_text = raw_text],
                                  Reply("empty_file")), "rejected"))
           ELSE Put(h, score_locally(s, raw_text))
        /\ UNCHANGED <<db, clock, paths, updates, scored>>

(***************************************************************************)
(* check_internet_plagiarism, one action per request to the service.       *)
(***************************************************************************)
\* lines 281-284 and 344-347: except Exception
vendor_error_mutant(s) == [Say(s, Reply("copyleaks_error")) EXCEPT !.pc = "utcnow"]
vendor_error(s) == Finish(Say(s, Reply("copyleaks_error")), "vendor_error")

Called(s, call) == [s EXCEPT !.calls = @ \cup {call}]

get_copyleaks_token(h, status_code) ==
    LET s == [Called(hs[h], "login") EXCEPT !.token_status = status_code]
    IN  /\ hs[h].pc = "token"
        /\ IF status_code # 200
           THEN Put(h, vendor_error(s))
           ELSE Put(h, [s EXCEPT !.pc = "submit"])
        /\ UNCHANGED <<db, clock, files, paths, updates, scored>>

\* submit_to_copyleaks and lines 228-230; has_scan: the answer names a scan id
submit_to_copyleaks(h, status_code, has_scan) ==
    LET s == [Called(hs[h], "submit") EXCEPT
                !.submit_answer = <<status_code, has_scan>>]
    IN  /\ hs[h].pc = "submit"
        /\ IF status_code \notin {200, 201} \/ ~has_scan
           THEN Put(h, vendor_error(s))
           ELSE Put(h, [s EXCEPT !.pc = "poll", !.scan = "queued"])
        /\ UNCHANGED <<db, clock, files, paths, updates, scored>>

Pending == {"queued", "in-progress"}
Ended == {"completed", "failed", "error"}

\* the scan makes progress at the service
scan_progress(h, status) ==
    /\ hs[h].pc = "poll"
    /\ hs[h].scan \in Pending
    /\ status # hs[h].scan
    /\ Put(h, [hs[h] EXCEPT !.scan = status])
    /\ UNCHANGED <<db, clock, files, paths, updates, scored>>

\* what the service answers to a status request
status_code_of(scan) == IF scan = "error" THEN 500 ELSE 200

\* one turn of the loop of poll_copyleaks_result
poll_copyleaks_result(h) ==
    LET s == [Called(hs[h], "status") EXCEPT !.polled = hs[h].scan]
        outcome == poll_outcome(status_code_of(s.scan), s.scan)
    IN  /\ hs[h].pc = "poll"
        /\ CASE outcome = "raise" -> Put(h, vendor_error(s))
             [] outcome = "return" ->
                  Put(h, [s EXCEPT !.pc = "report"])
             [] outcome = "sleep" -> Put(h, [s EXCEPT !.waited = TRUE])
        /\ UNCHANGED <<db, clock, files, paths, updates, scored>>

\* get_copyleaks_report, lines 240-242, and the verdict of lines 287-295
get_copyleaks_report(h, report) ==
    LET s == [Called(hs[h], "results") EXCEPT !.report = report]
        internet_score == overall_score(report)
    IN  /\ hs[h].pc = "report"
        /\ IF report.status_code # 200
           THEN /\ Put(h, vendor_error(s))
                /\ UNCHANGED scored
           ELSE /\ Put(h, Say([s EXCEPT !.pc = "utcnow",
                                        !.score = internet_score],
                              verdict_reply(internet_score)))
                /\ scored' = scored + 1
        /\ UNCHANGED <<db, clock, files, paths, updates>>

(***************************************************************************)
(* save_submission: the arguments of the INSERT are evaluated, utcnow()    *)
(* among them, and then the statement runs and commits.                    *)
(***************************************************************************)
save_submission_utcnow(h) ==
    /\ hs[h].pc = "utcnow"
    /\ Put(h, [hs[h] EXCEPT !.pc = "insert", !.ts = clock])
    /\ UNCHANGED <<db, clock, files, paths, updates, scored>>

inserted_mutant(rows, row) == rows
inserted(rows, row) == Append(rows, row)

save_submission_insert(h) ==
    LET s == hs[h]
    IN  /\ s.pc = "insert"
        /\ db' = inserted(db, new_row(db, s.update.user, s.raw_text, s.ts, s.score))
        /\ Put(h, Finish([s EXCEPT !.saved = @ + 1], "saved"))
        /\ UNCHANGED <<clock, files, paths, updates, scored>>

\* time passes
tick ==
    /\ clock < MaxClock
    /\ clock' = clock + 1
    /\ UNCHANGED <<db, files, paths, updates, scored, hs>>

(***************************************************************************)
(* The inputs: users, texts, documents and the answers of the service.     *)
(***************************************************************************)
Ann == [id |-> 7, username |-> <<"a", "n">>]
Bob == [id |-> 42, username |-> None]

\* two texts whose ratio is 14/20, the local threshold exactly
Long1 == <<"a", "a", "a", "a", "a", "a", "a", "b", "b", "b">>
Long2 == <<"b", "b", "b", "a", "a", "a", "a", "a", "a", "a">>

TextUpdate(user, text) ==
    [kind |-> "text", user |-> user, text |-> text, file_name |-> None,
     doc |-> [ok |-> FALSE, nodes |-> <<>>]]

DocUpdate(user, file_name, doc) ==
    [kind |-> "document", user |-> user, text |-> None,
     file_name |-> file_name, doc |-> doc]

Docx == <<"a", ".", "d", "o", "c", "x">>
DocxUpper == <<"A", ".", "D", "O", "C", "X">>
Doc == <<"a", ".", "d", "o", "c">>

Corrupt == [ok |-> FALSE, nodes |-> <<>>]
NoText == [ok |-> TRUE, nodes |-> << <<>>, <<" ">> >>]
TwoNodes == [ok |-> TRUE, nodes |-> << <<"a">>, <<>>, <<"b">> >>]

\* the updates of the specification of the handlers
Updates ==
    {TextUpdate(Ann, t) : t \in {<<" ">>, Long1, Long2, <<" ">> \o Long2}}
    \cup {DocUpdate(Ann, Doc, TwoNodes), DocUpdate(Ann, DocxUpper, Corrupt),
          DocUpdate(Ann, Docx, NoText), DocUpdate(Ann, Docx, TwoNodes)}

Report(status_code, has_summary, has_percentage, percentage) ==
    [status_code |-> status_code, has_summary |-> has_summary,
     has_percentage |-> has_percentage, percentage |-> percentage]

\* the answers of the service: to the login, to the submission (with whether
\* it names a scan), the states of a scan, and to the request for the results
Service ==
    [token |-> {200, 401},
     submit |-> {<<200, TRUE>>, <<201, TRUE>>, <<200, FALSE>>, <<400, FALSE>>},
     scan |-> Pending \cup Ended,
     report |-> {Report(500, FALSE, FALSE, 0), Report(200, FALSE, FALSE, 0),
                 Report(200, TRUE, FALSE, 0), Report(200, TRUE, TRUE, 19),
                 Report(200, TRUE, TRUE, 20), Report(200, TRUE, TRUE, 21)},
     download |-> {"get_file raises", "download raises", "downloaded"}]

(***************************************************************************)
(* The specification of the handlers: one request thread, every answer of  *)
(* the service.                                                            *)
(***************************************************************************)
\* the steps of a handler before its first request to the service
LocalStep(h, V) ==
    \/ check_text(h)
    \/ handle_document(h)
    \/ \E outcome \in V.download : download(h, outcome)
    \/ extract(h)

\* the steps of check_internet_plagiarism and of save_submission
RemoteStep(h, V) ==
    \/ \E status_code \in V.token : get_copyleaks_token(h, status_code)
    \/ \E answer \in V.submit : submit_to_copyleaks(h, answer[1], answer[2])
    \/ poll_copyleaks_result(h)
    \/ \E report \in V.report : get_copyleaks_report(h, report)
    \/ save_submission_utcnow(h)
    \/ save_submission_insert(h)

Next ==
    \/ \E update \in Updates : webhook("t1", update, MaxUpdates)
    \/ LocalStep("t1", Service)
    \/ RemoteStep("t1", Service)
    \/ \E status \in Service.scan : scan_progress("t1", status)

\* a thread that has called check_internet_plagiarism keeps running
Spec == Init /\ [][Next]_vars /\ WF_vars(RemoteStep("t1", Service))

(***************************************************************************)
(* The specification of the local scorer: one request thread, text         *)
(* messages of two users, a service that answers every request well.       *)
(***************************************************************************)
\* every text of one or two letters, and one with white space around it
Letters == {"a", "b"}
Texts ==
    [1..1 -> Letters] \cup [1..2 -> Letters] \cup {<<" ", "a", "b", "\n">>}

TextUpdates == {TextUpdate(user, t) : user \in {Ann, Bob}, t \in Texts}

Reliable ==
    [token |-> {200},
     submit |-> {<<200, TRUE>>},
     scan |-> {"completed"},
     report |-> {Report(200, TRUE, TRUE, 20)},
     download |-> {"downloaded"}]

NextTexts ==
    \/ \E update \in TextUpdates : webhook("t1", update, MaxTextUpdates)
    \/ check_text("t1")
    \/ RemoteStep("t1", Reliable)
    \/ \E status \in Reliable.scan : scan_progress("t1", status)

SpecTexts == Init /\ [][NextTexts]_vars

(***************************************************************************)
(* The specification of concurrent requests: the web server runs each      *)
(* request in a thread of its own, so two handlers run at once, and time   *)
(* passes.                                                                 *)
(***************************************************************************)
RaceUpdates == {TextUpdate(Ann, <<"a">>), TextUpdate(Bob, <<"b">>)}

NextRace ==
    \/ \E h \in Handlers : \E update \in RaceUpdates :
            webhook(h, update, MaxRaceUpdates)
    \/ \E h \in Handlers : check_text(h)
    \/ \E h \in Handlers : RemoteStep(h, Reliable)
    \/ \E h \in Handlers : \E status \in Reliable.scan : scan_progress(h, status)
    \/ tick

SpecRace == Init /\ [][NextRace]_vars

(***************************************************************************)
(* What a handling was given, read from its update and from the answers    *)
(* of the service.                                                         *)
(***************************************************************************)
Last(seq) == seq[Len(seq)]

\* the thread has handled an update to its end
Finished(s) == s.pc = "idle" /\ s.update.kind # "none"

AllWhitespace(text) == \A i \in 1..Len(text) : text[i] \in Whitespace

DocxSuffix == <<{"."}, {"d", "D"}, {"o", "O"}, {"c", "C"}, {"x", "X"}>>

EmptyTextInput(s) ==
    s.update.kind = "text" /\ AllWhitespace(s.update.text)

WrongFileType(s) ==
    /\ s.update.kind = "document"
    /\ LET name == s.update.file_name
       IN  \/ Len(name) < 5
           \/ \E i \in 1..5 : name[Len(name) - 5 + i] \notin DocxSuffix[i]

EmptyExtractedText(s) ==
    /\ s.update.kind = "document"
    /\ ~WrongFileType(s)
    /\ s.update.doc.ok
    /\ \A i \in 1..Len(s.update.doc.nodes) : AllWhitespace(s.update.doc.nodes[i])

AuthenticationFailed(s) == "login" \in s.calls /\ s.token_status # 200
SubmissionRejected(s) ==
    "submit" \in s.calls /\ s.submit_answer[1] \notin {200, 201}
MissingScanId(s) ==
    "submit" \in s.calls /\ s.submit_answer[1] \in {200, 201} /\ ~s.submit_answer[2]
PollingError(s) == s.polled = "error"
ScanFailed(s) == s.polled = "failed"
ResultsError(s) == "results" \in s.calls /\ s.report.status_code # 200
GotResults(s) == "results" \in s.calls /\ s.report.status_code = 200
NoPercentage(s) ==
    GotResults(s) /\ ~(s.report.has_summary /\ s.report.has_percentage)

\* the percentage of the results, 0.0 when they carry none
Percentage(s) ==
    IF s.report.has_summary /\ s.report.has_percentage
    THEN s.report.percentage
    ELSE 0

\* the handling ended with the error reply and left the store alone
ErrorHandled(s) ==
    /\ s.pc = "idle"
    /\ s.replies # <<>>
    /\ Last(s.replies).kind = "copyleaks_error"
    /\ s.saved = 0
    /\ Len(db) = s.start_rows

RemoteFailure(s) ==
    \/ AuthenticationFailed(s)
    \/ SubmissionRejected(s)
    \/ MissingScanId(s)
    \/ PollingError(s)
    \/ ScanFailed(s)
    \/ ResultsError(s)

(***************************************************************************)
(* C1, as stated: every vendor error, results without a percentage among   *)
(* them, ends the handling with the error reply and without a row saved.   *)
(***************************************************************************)
C1_EveryVendorErrorIsReported ==
    \A h \in Handlers :
        (RemoteFailure(hs[h]) \/ NoPercentage(hs[h])) => ErrorHandled(hs[h])

(***************************************************************************)
(* C1, amended: a failed login, a rejected submission, a missing scan id,  *)
(* a polling error, the status 'failed' and a results-fetch error end the  *)
(* handling with the error reply and without a row saved; results that     *)
(* carry no percentage are no error: the score is 0.0, the verdict is      *)
(* 'original' and the row is saved with the score 0.0.                     *)
(***************************************************************************)
C1_VendorErrorsNotPersisted ==
    \A h \in Handlers :
        LET s == hs[h]
        IN  /\ RemoteFailure(s) => ErrorHandled(s)
            /\ NoPercentage(s) =>
                 /\ s.pc \in {"utcnow", "insert", "idle"}
                 /\ Last(s.replies).kind = "original"
                 /\ s.score = 0
                 /\ Finished(s) =>
                      /\ s.saved = 1
                      /\ Len(db) = s.start_rows + 1
                      /\ Last(db).internet_score = 0

C1_Witness ==
    \E h \in Handlers :
        /\ Finished(hs[h])
        /\ ResultsError(hs[h])
        /\ hs[h].polled = "completed"
        /\ Last(hs[h].replies).kind = "copyleaks_error"

(***************************************************************************)
(* C2: a text that is empty once stripped, a file whose name does not end  *)
(* in .docx (in whatever case) and a .docx whose text is empty or white    *)
(* space get a reply, no request to the service and no row.                *)
(***************************************************************************)
C2_ValidationErrorsChangeNothing ==
    \A h \in Handlers :
        LET s == hs[h]
            reply == IF EmptyTextInput(s) THEN "empty_text"
                     ELSE IF WrongFileType(s) THEN "only_docx"
                     ELSE "empty_file"
        IN  (EmptyTextInput(s) \/ WrongFileType(s) \/ EmptyExtractedText(s)) =>
                /\ s.calls = {}
                /\ s.saved = 0
                /\ Len(db) = s.start_rows
                /\ s.pc \in {"handler", "download", "extract", "idle"}
                /\ (WrongFileType(s) \/ EmptyTextInput(s)) => s.temp_path = 0
                /\ (Finished(s) /\ s.result # "raised") =>
                        s.replies = <<Reply(reply)>>

C2_Witness ==
    \E h \in Handlers :
        /\ Finished(hs[h])
        /\ EmptyExtractedText(hs[h])
        /\ hs[h].replies = <<Reply("empty_file")>>
        /\ db # <<>>

(***************************************************************************)
(* C3: a handling whose remote scan returns a score adds exactly one row,  *)
(* with its submitter, text and score, whatever the local similarity; any  *)
(* other handling adds none; the rows are as many as the scans that        *)
(* returned a score, less the handlings that are about to save.            *)
(***************************************************************************)
SubmittedText(update) ==
    IF update.kind = "text" THEN strip(update.text)
    ELSE extract_text_from_docx(update.doc)

Saving == {h \in Handlers : hs[h].pc \in {"utcnow", "insert"}}

C3_PersistedExactlyOnce ==
    /\ Len(db) + Cardinality(Saving) = scored
    /\ \A h \in Handlers :
        LET s == hs[h]
        IN  Finished(s) =>
                IF GotResults(s)
                THEN /\ s.saved = 1
                     /\ Len(db) = s.start_rows + 1
                     /\ Last(db).id = Len(db)
                     /\ Last(db).user_id = s.update.user.id
                     /\ Last(db).text = SubmittedText(s.update)
                     /\ Last(db).internet_score = Percentage(s)
                ELSE /\ s.saved = 0
                     /\ Len(db) = s.start_rows

C3_Witness ==
    \E h \in Handlers :
        /\ Finished(hs[h])
        /\ hs[h].saved = 1
        /\ hs[h].replies[1].kind = "local_warning"
        /\ Len(db) = 2
        /\ db[1].text = hs[h].raw_text /\ db[2].text = hs[h].raw_text

(***************************************************************************)
(* C4: when a handling of a document ends, the temporary file it created   *)
(* is gone.                                                                *)
(***************************************************************************)
C4_TemporaryFileRemoved ==
    \A h \in Handlers :
        (Finished(hs[h]) /\ hs[h].temp_path # 0) => hs[h].temp_path \notin files

(***************************************************************************)
(* C8: the verdict is 'not original' exactly when the percentage is at     *)
(* least 20, and the local warning is sent exactly when there is a match   *)
(* whose ratio is at least 0.7.                                            *)
(***************************************************************************)
C8_ThresholdsInclusive ==
    \A h \in Handlers :
        LET s == hs[h]
        IN  /\ s.pc \in {"token", "submit", "poll", "report", "utcnow", "insert"}
                => s.replies # <<>>
            /\ (s.replies # <<>> /\ s.replies[1].kind \in {"local_warning", "no_local"})
                => (s.replies[1].kind = "local_warning"
                        <=> /\ s.local.id # NoId
                            /\ 10 * s.local.ratio.num >= 7 * s.local.ratio.den)
            /\ GotResults(s) =>
                 Last(s.replies).kind =
                    IF Percentage(s) >= 20 THEN "not_original" ELSE "original"

C8_Witness ==
    \E h \in Handlers :
        LET s == hs[h]
        IN  /\ GotResults(s)
            /\ s.local.ratio = [num |-> 14, den |-> 20]
            /\ s.replies[1].kind = "local_warning"
            /\ s.report.has_percentage /\ s.report.percentage = 20
            /\ Last(s.replies).kind = "not_original"

(***************************************************************************)
(* C10: the requests go login, submission, status, results; the polling    *)
(* loop ends only on an error answer, on 'completed' (and only then are    *)
(* the results fetched) or on 'failed'; while the scan is pending a poll   *)
(* changes nothing but the wait; once the service answers with one of the  *)
(* three the handling ends with a verdict or with the error reply.         *)
(***************************************************************************)
RequestsInOrder(s) ==
    /\ "submit" \in s.calls => "login" \in s.calls /\ s.token_status = 200
    /\ "status" \in s.calls => "submit" \in s.calls /\ s.submit_answer[2]
    /\ "results" \in s.calls => "status" \in s.calls /\ s.polled = "completed"
    /\ s.pc \in {"report", "utcnow", "insert"} => s.polled = "completed"
    /\ s.pc = "utcnow" => "results" \in s.calls

LoopLeft(h) ==
    (hs[h].pc = "poll" /\ hs'[h].pc # "poll") =>
        /\ hs'[h].polled \in {"error", "completed", "failed"}
        /\ hs'[h].polled = hs[h].scan
        /\ hs'[h].pc = IF hs'[h].polled = "completed" THEN "report" ELSE "idle"

StillPolling(h) ==
    (hs[h].pc = "poll" /\ hs[h].scan \in Pending) =>
        /\ hs'[h].pc = "poll"
        /\ hs'[h].replies = hs[h].replies
        /\ db' = db

Answered(h) == hs[h].pc = "poll" /\ hs[h].scan \in {"error", "completed", "failed"}

HandlingEnded(h) ==
    /\ Finished(hs[h])
    /\ hs[h].replies # <<>>
    /\ Last(hs[h].replies).kind \in {"original", "not_original", "copyleaks_error"}

C10_PollUntilCompletedOrFailed ==
    /\ [](\A h \in Handlers : RequestsInOrder(hs[h]))
    /\ [][\A h \in Handlers : LoopLeft(h) /\ StillPolling(h)]_vars
    /\ \A h \in {"t1"} : Answered(h) ~> HandlingEnded(h)

C10_Witness ==
    \E h \in Handlers :
        /\ hs[h].pc = "poll"
        /\ hs[h].waited
        /\ hs[h].polled = "queued"
        /\ hs[h].scan = "in-progress"

(***************************************************************************)
(* C5: the rows carry timestamps that do not decrease with the id.         *)
(***************************************************************************)
C5_TimestampsFollowIds ==
    \A i \in 1..Len(db) : \A j \in 1..Len(db) :
        db[i].id < db[j].id => db[i].ts <= db[j].ts

(***************************************************************************)
(* The local scorer, as seen from a handling that has scored its text      *)
(* against the rows 1..nrows it fetched.                                   *)
(***************************************************************************)
Scored(s) == s.replies # <<>> /\ s.replies[1].kind \in {"local_warning", "no_local"}

NoCommonCharacter(a, b) ==
    \A i \in 1..Len(a) : \A j \in 1..Len(b) : a[i] # b[j]

\* the name the users of the model are shown by
NameOf(user_id) == IF user_id = 7 THEN <<"a", "n">> ELSE <<"4", "2">>

NoMatch(local) ==
    /\ local.ratio.num = 0
    /\ local.id = NoId
    /\ local.user = None

C7_BestMatch ==
    \A h \in Handlers :
        LET s == hs[h]
            R(k) == ratio(s.raw_text, db[k].text)
        IN  (Scored(s) /\ s.local.id # NoId) =>
                /\ s.local.id \in 1..s.nrows
                /\ Same(s.local.ratio, R(s.local.id))
                /\ \A k \in 1..s.nrows : GreaterEq(s.local.ratio, R(k))
                /\ \A k \in 1..(s.local.id - 1) : Greater(s.local.ratio, R(k))
                /\ s.local.user = NameOf(db[s.local.id].user_id)
                /\ db[s.local.id].username # <<>>
                        => s.local.user = db[s.local.id].username

\* a tie of two rows at 2/3, won by the first, which has no handle
C7_Witness ==
    \E h \in Handlers :
        LET s == hs[h]
        IN  /\ Scored(s)
            /\ s.nrows = 2
            /\ s.local.id = 1
            /\ s.local.ratio = [num |-> 2, den |-> 3]
            /\ Same(ratio(s.raw_text, db[2].text), s.local.ratio)
            /\ db[1].username = <<>>
            /\ s.local.user = <<"4", "2">>

(***************************************************************************)
(* C9.  The second of two consecutive identical texts of different         *)
(* senders: the row before its own is the first sender's.                  *)
(***************************************************************************)
SecondOfTwo(s) ==
    /\ Scored(s)
    /\ s.update.kind = "text"
    /\ s.nrows >= 1
    /\ db[s.nrows].text = s.raw_text
    /\ db[s.nrows].user_id # s.update.user.id

BothPersist(s) ==
    (Finished(s) /\ GotResults(s)) =>
        /\ Len(db) = s.nrows + 1
        /\ db[s.nrows].text = db[s.nrows + 1].text
        /\ db[s.nrows].user_id # db[s.nrows + 1].user_id
        /\ db[s.nrows + 1].user_id = s.update.user.id

(***************************************************************************)
(* C9, as stated: both rows are stored, the second handling scores 1.0     *)
(* and its warning names the first sender.                                 *)
(***************************************************************************)
C9_SecondWarnedOfFirstSender ==
    \A h \in Handlers :
        LET s == hs[h]
        IN  SecondOfTwo(s) =>
                /\ BothPersist(s)
                /\ s.local.ratio.num = s.local.ratio.den
                /\ s.replies[1] =
                      [kind |-> "local_warning",
                       user |-> NameOf(db[s.nrows].user_id)]

(***************************************************************************)
(* C9, amended: both rows are stored, the second handling scores 1.0 and   *)
(* its warning names the sender of the stored row of lowest id with that   *)
(* text: the first sender, unless an earlier row holds the same text.      *)
(***************************************************************************)
C9_SecondWarnedOfEarliestSender ==
    \A h \in Handlers :
        LET s == hs[h]
            first == CHOOSE k \in 1..s.nrows :
                        /\ db[k].text = s.raw_text
                        /\ \A j \in 1..(k - 1) : db[j].text # s.raw_text
        IN  SecondOfTwo(s) =>
                /\ BothPersist(s)
                /\ s.local.ratio.num = s.local.ratio.den
                /\ s.local.id = first
                /\ s.replies[1] =
                      [kind |-> "local_warning",
                       user |-> NameOf(db[first].user_id)]
                /\ first = s.nrows =>
                      s.replies[1].user = NameOf(db[s.nrows].user_id)

C9_Witness ==
    \E h \in Handlers :
        LET s == hs[h]
        IN  /\ SecondOfTwo(s)
            /\ Finished(s)
            /\ Len(db) = 3
            /\ db[1].text # db[2].text
            /\ db[2].username = <<>>
            /\ s.replies[1] = [kind |-> "local_warning", user |-> <<"4", "2">>]

=============================================================================
